---- MODULE Spec2Model ----
(***************************************************************************)
(* The carpark vehicle spawner (spawn_carpark.py and its static-prop       *)
(* variant spawn_carpark_static.py) as a state machine.                    *)
(*                                                                         *)
(* Distances are integers on a grid: a parking line runs along one axis   *)
(* (so that its length, direction and perpendicular are integers), and     *)
(* random.uniform(a, b) is the choice of any grid point between a and b,   *)
(* both ends included (Python documents that the end point b may or may    *)
(* not be produced).                                                       *)
(***************************************************************************)
EXTENDS Integers, Sequences, FiniteSets, TLC

\* Bounds of the model.
MaxLen == 8
MaxSpacing == 3
MaxCount == 4
MaxLines == 2
MaxPool == 3
MaxPoseLen == 2
MaxPoseCount == 2
MaxCalls == 2

\* CarparkVehicleSpawner.__init__: spawn_height (the default) and
\* parking_offset (the value main passes).
SpawnHeight == 50
ParkingOffset == 3

VARIABLES
    script,            \* "generate": one direct call of generate_spawn_positions;
                       \* "dynamic": spawn_carpark.py; "static": spawn_carpark_static.py
    parking_lines,     \* the parking line rows passed by the caller
    library,           \* what blueprint_library.filter(vehicle_filter) returns
    load_file,         \* spawn_carpark's load_file and what reading it gives
    use_static_props,  \* self.use_static_props once the constructor is through
    env,               \* what the world may answer: ground hits, yaw jitters,
                       \* spawn outcomes
    pc,                \* position in the code
    i,                 \* spawn_carpark's loop index (0-based, as enumerate gives)
    num_vehicles,      \* generate_spawn_positions' local, clamped to max_vehicles
    positions,         \* generate_spawn_positions' list of distances along the line
    current_pos,       \* generate_spawn_positions' cumulative distance
    k,                 \* iterations of the primary for loop done so far
    spawn_transforms,  \* generate_spawn_positions' result list
    perp_vec,          \* generate_spawn_positions' perp_vec (<< >> before the call)
    line_dir,          \* generate_spawn_positions' line_dir (<< >> before the call)
    vehicle_blueprints,     \* spawn_carpark's pool after filter_vehicles
    line_vehicle_blueprints,\* the line's pool after filter_vehicles_for_line
    line_loaded_spawns,     \* the loaded spawns handed to the line (<< >>: none)
    unassigned_spawn_index, \* spawn_carpark's cursor in the legacy spawns
    j,                      \* slots of the line's spawn loop done so far
    spawned_vehicles,       \* spawn_vehicles_along_line's actor list
    spawn_data_list,        \* spawn_vehicles_along_line's spawn records
    vehicles,               \* self.vehicles
    all_spawn_data,         \* spawn_carpark's all_spawn_data
    world,                  \* every actor world.spawn_actor created, in order
    err,               \* the exception that left the call, "" when none
    log                \* what the run printed, drew and asked, in order

inputs == << script, parking_lines, library, load_file, use_static_props, env >>

genVars == << num_vehicles, positions, current_pos, k, spawn_transforms,
             perp_vec, line_dir >>

lineVars == << vehicle_blueprints, line_vehicle_blueprints, line_loaded_spawns,
               unassigned_spawn_index, j, spawned_vehicles, spawn_data_list,
               vehicles, all_spawn_data, world >>

vars == << inputs, pc, i, genVars, lineVars, err, log >>

-----------------------------------------------------------------------------
\* Arithmetic helpers.

Abs(x) == IF x < 0 THEN -x ELSE x

Min(a, b) == IF a <= b THEN a ELSE b

\* int(a / b) for b # 0: Python's int() truncates toward zero.
TruncDiv(a, b) ==
    IF (a >= 0) = (b > 0) THEN Abs(a) \div Abs(b) ELSE -(Abs(a) \div Abs(b))

\* random.uniform(a, b) on the grid.
Uniform(a, b) == IF a <= b THEN a..b ELSE b..a

\* The grid points of random.uniform(0, s * 0.5).
UniformHalf(s) ==
    {u \in Uniform(0, s) : IF s >= 0 THEN 2 * u <= s ELSE 2 * u >= s}

-----------------------------------------------------------------------------
\* generate_spawn_positions, piece by piece.

\* A side check that lets every value through.
ValidSideAny(side_type) == TRUE

\* The side_type values the if/elif chain accepts.
ValidSide(side_type) == side_type \in {"left", "right", "both"}

\* The two fixed sides exchanged.
SidesToUseSwapped(side_type) ==
    CASE side_type = "left" -> << "right" >>
      [] side_type = "right" -> << "left" >>
      [] side_type = "both" -> << "left", "right" >>
      [] OTHER -> << >>

\* sides_to_use after the if/elif chain ([] is its initial value).
SidesToUse(side_type) ==
    CASE side_type = "left" -> << "left" >>
      [] side_type = "right" -> << "right" >>
      [] side_type = "both" -> << "left", "right" >>
      [] OTHER -> << >>

\* The length one too long.
LineLengthPadded(line) ==
    1 + Abs(line.end_loc[1] - line.start_loc[1])
      + Abs(line.end_loc[2] - line.start_loc[2])
      + Abs(line.end_loc[3] - line.start_loc[3])

\* line_length of an axis-aligned segment: sqrt(dx^2 + dy^2 + dz^2).
LineLength(line) ==
    Abs(line.end_loc[1] - line.start_loc[1])
    + Abs(line.end_loc[2] - line.start_loc[2])
    + Abs(line.end_loc[3] - line.start_loc[3])

\* max_vehicles = int(line_length / min_spacing), min_spacing # 0.
MaxVehicles(line_length, min_spacing) == TruncDiv(line_length, min_spacing)

\* The capacity test with >= for >.
ExceedsCapacityEq(n, max_vehicles) == n >= max_vehicles

\* if num_vehicles > max_vehicles: warn and clamp.
ExceedsCapacity(n, max_vehicles) == n > max_vehicles

\* The primary spacing without its min_spacing term.
PrimarySpacingsNoMin(min_spacing) == Uniform(0, min_spacing)

\* The primary spacing with a range of twice the width.
PrimarySpacingsWide(min_spacing) ==
    {min_spacing + u : u \in Uniform(0, 2 * min_spacing)}

\* spacing = min_spacing + random.uniform(0, min_spacing)
PrimarySpacings(min_spacing) ==
    {min_spacing + u : u \in Uniform(0, min_spacing)}

\* The overflow test with the spacing on the wrong side.
PrimaryOverflowsSign(cur, spacing, line_length) == cur - spacing > line_length

\* if current_pos + spacing > line_length: break
PrimaryOverflows(cur, spacing, line_length) == cur + spacing > line_length

\* The backfill spacing without its min_spacing term.
BackfillSpacingsNoMin(min_spacing) == UniformHalf(min_spacing)

\* spacing = min_spacing + random.uniform(0, min_spacing * 0.5)
BackfillSpacings(min_spacing) ==
    {min_spacing + u : u \in UniformHalf(min_spacing)}

\* The backfill condition without its count test.
BackfillContinuesNoCount(n_positions, n, cur, line_length) == cur < line_length

\* while len(positions) < num_vehicles and current_pos < line_length
BackfillContinues(n_positions, n, cur, line_length) ==
    n_positions < n /\ cur < line_length

\* The backfill test left out.
BackfillFitsAlways(cur, spacing, line_length) == TRUE

\* The backfill test with < for <=.
BackfillFitsStrict(cur, spacing, line_length) == cur + spacing < line_length

\* if current_pos + spacing <= line_length: append
BackfillFits(cur, spacing, line_length) == cur + spacing <= line_length

-----------------------------------------------------------------------------
\* compute_perpendicular_vector and the pose arithmetic, for axis-aligned
\* segments (every square root is then an integer).

Vec(a, b) == << b[1] - a[1], b[2] - a[2], b[3] - a[3] >>

\* A version whose degenerate case returns the perpendicular of (1,0,0).
ComputePerpendicularVectorTurned(start_loc, end_loc) ==
    LET line_vec == Vec(start_loc, end_loc)
        line_length == Abs(line_vec[1]) + Abs(line_vec[2]) + Abs(line_vec[3])
    IN  IF line_length = 0
        THEN << << 0, 1, 0 >>, << 1, 0, 0 >> >>
        ELSE LET dir == << line_vec[1] \div line_length,
                           line_vec[2] \div line_length,
                           line_vec[3] \div line_length >>
                 perp == << -dir[2], dir[1], 0 >>
                 perp_length == Abs(perp[1]) + Abs(perp[2])
             IN  IF perp_length > 0
                 THEN << << perp[1] \div perp_length,
                            perp[2] \div perp_length, 0 >>, dir >>
                 ELSE << << 1, 0, 0 >>, dir >>

\* compute_perpendicular_vector: << perp_vec, line_dir >>.
ComputePerpendicularVector(start_loc, end_loc) ==
    LET line_vec == Vec(start_loc, end_loc)
        line_length == Abs(line_vec[1]) + Abs(line_vec[2]) + Abs(line_vec[3])
    IN  IF line_length = 0
        THEN << << 1, 0, 0 >>, << 1, 0, 0 >> >>
        ELSE LET dir == << line_vec[1] \div line_length,
                           line_vec[2] \div line_length,
                           line_vec[3] \div line_length >>
                 perp == << -dir[2], dir[1], 0 >>
                 perp_length == Abs(perp[1]) + Abs(perp[2])
             IN  IF perp_length > 0
                 THEN << << perp[1] \div perp_length,
                            perp[2] \div perp_length, 0 >>, dir >>
                 ELSE << << 1, 0, 0 >>, dir >>

\* line_pos: start + t * (end - start), t = pos / line_length (0 for length 0).
LinePos(line, pos_along_line) ==
    LET len == LineLength(line)
        d == Vec(line.start_loc, line.end_loc)
    IN  IF len > 0
        THEN << line.start_loc[1] + (pos_along_line * d[1]) \div len,
                line.start_loc[2] + (pos_along_line * d[2]) \div len,
                line.start_loc[3] + (pos_along_line * d[3]) \div len >>
        ELSE line.start_loc

\* offset_direction = 1 if side == "right" else -1
OffsetDirection(side) == IF side = "right" THEN 1 ELSE -1

\* parking_pos before the ground query.
ParkingPos(line, pos_along_line, side) ==
    LET line_pos == LinePos(line, pos_along_line)
    IN  << line_pos[1] + OffsetDirection(side) * ParkingOffset * perp_vec[1],
           line_pos[2] + OffsetDirection(side) * ParkingOffset * perp_vec[2],
           line_pos[3] >>

\* A ground query whose miss gives height 0.
GetGroundHeightZero(location, hit) == IF hit # << >> THEN hit[1] ELSE 0

\* get_ground_height: the z of the first hit, the location's own z on a miss.
\* hit is << z >> for a hit at height z and << >> for no hit.
GetGroundHeight(location, hit) == IF hit # << >> THEN hit[1] ELSE location[3]

\* math.degrees(math.atan2(y, x)) of an axis direction.
BaseYaw(dir) ==
    CASE dir[1] > 0 -> 0
      [] dir[1] < 0 -> 180
      [] dir[2] > 0 -> 90
      [] dir[2] < 0 -> -90
      [] OTHER -> 0

\* The quarter turns of the two sides exchanged.
SideYawSwapped(base_yaw, side) ==
    IF side = "left" THEN base_yaw - 90 ELSE base_yaw + 90

\* yaw before the jitter.
SideYaw(base_yaw, side) ==
    IF side = "left" THEN base_yaw + 90 ELSE base_yaw - 90

\* One iteration of the for loop over positions: the (transform, side) tuple.
SpawnTransform(line, pos_along_line, side, hit, jitter) ==
    LET parking_pos == ParkingPos(line, pos_along_line, side)
    IN  [ pos |-> pos_along_line,
          location |-> << parking_pos[1], parking_pos[2],
                          GetGroundHeight(parking_pos, hit) + SpawnHeight >>,
          yaw |-> SideYaw(BaseYaw(line_dir), side) + jitter,
          pitch |-> 0,
          roll |-> 0,
          side |-> side ]

-----------------------------------------------------------------------------
\* The line generate_spawn_positions is working on.
Line == parking_lines[i + 1]

Event(ev) == [ev |-> ev, line |-> i]

\* A random draw or a ground query, with the value it returned.
Draw(ev, val) == [ev |-> ev, line |-> i, val |-> val]

\* raise: the exception leaves every frame up to the caller of the script's
\* entry point (nothing on the way catches it).
Raise(e) == /\ pc' = "raised"
            /\ err' = e

\* generate_spawn_positions up to the first loop: the perpendicular of the
\* line, the side check, the line length, the capacity clamp and its warning.
GenBegin ==
    /\ pc = "gen"
    /\ LET pd == ComputePerpendicularVector(Line.start_loc, Line.end_loc)
       IN  perp_vec' = pd[1] /\ line_dir' = pd[2]
    /\ IF ~ValidSide(Line.side_type)
       THEN /\ Raise("ValueError")
            /\ UNCHANGED << num_vehicles, positions, current_pos, k, log >>
       ELSE IF Line.min_spacing = 0
       THEN /\ Raise("ZeroDivisionError")
            /\ UNCHANGED << num_vehicles, positions, current_pos, k, log >>
       ELSE LET max_vehicles == MaxVehicles(LineLength(Line), Line.min_spacing)
                exceeds == ExceedsCapacity(Line.num_vehicles, max_vehicles)
            IN  /\ num_vehicles' = IF exceeds THEN max_vehicles
                                   ELSE Line.num_vehicles
                /\ log' = IF exceeds
                          THEN Append(log, Draw("warn_capacity",
                                  << Line.num_vehicles, max_vehicles >>))
                          ELSE log
                /\ positions' = << >>
                /\ current_pos' = 0
                /\ k' = 0
                /\ pc' = "primary"
                /\ err' = err
    /\ spawn_transforms' = << >>
    /\ UNCHANGED << inputs, i, lineVars >>

\* One iteration of `for i in range(num_vehicles)`, or the loop's end.
PrimaryStep ==
    /\ pc = "primary"
    /\ IF k < num_vehicles
       THEN \E spacing \in PrimarySpacings(Line.min_spacing) :
              /\ log' = Append(log, Draw("draw_spacing", spacing))
              /\ IF PrimaryOverflows(current_pos, spacing, LineLength(Line))
                 THEN /\ pc' = "backfill"
                      /\ UNCHANGED << positions, current_pos, k >>
                 ELSE /\ positions' = Append(positions, current_pos)
                      /\ current_pos' = current_pos + spacing
                      /\ k' = k + 1
                      /\ pc' = pc
       ELSE /\ pc' = "backfill"
            /\ UNCHANGED << positions, current_pos, k, log >>
    /\ UNCHANGED << inputs, i, num_vehicles, spawn_transforms, perp_vec,
                    line_dir, err, lineVars >>

\* One iteration of the backfill while loop, or its end.
BackfillStep ==
    /\ pc = "backfill"
    /\ IF BackfillContinues(Len(positions), num_vehicles, current_pos,
                            LineLength(Line))
       THEN \E spacing \in BackfillSpacings(Line.min_spacing) :
              /\ log' = Append(log, Draw("draw_spacing", spacing))
              /\ IF BackfillFits(current_pos, spacing, LineLength(Line))
                 THEN /\ positions' = Append(positions, current_pos)
                      /\ current_pos' = current_pos + spacing
                      /\ pc' = pc
                 ELSE /\ pc' = "synth"
                      /\ UNCHANGED << positions, current_pos >>
       ELSE /\ pc' = "synth"
            /\ UNCHANGED << positions, current_pos, log >>
    /\ UNCHANGED << inputs, i, num_vehicles, k, spawn_transforms, perp_vec,
                    line_dir, err, lineVars >>

\* One iteration of `for pos_along_line in positions`.
Synthesize ==
    /\ pc = "synth"
    /\ Len(spawn_transforms) < Len(positions)
    /\ LET sides_to_use == SidesToUse(Line.side_type)
           pos_along_line == positions[Len(spawn_transforms) + 1]
       IN  IF sides_to_use = << >>
           THEN /\ Raise("IndexError")
                /\ UNCHANGED << spawn_transforms, log >>
           ELSE \E s \in 1..Len(sides_to_use), hit \in env.ground,
                   jitter \in env.jitter :
                  /\ spawn_transforms' = Append(spawn_transforms,
                        SpawnTransform(Line, pos_along_line, sides_to_use[s],
                                       hit, jitter))
                  /\ log' = log
                        \o (IF Len(sides_to_use) > 1
                            THEN << Draw("draw_side", sides_to_use[s]) >>
                            ELSE << >>)
                        \o << Draw("query", hit), Draw("draw_yaw", jitter) >>
                  /\ UNCHANGED << pc, err >>
    /\ UNCHANGED << inputs, i, num_vehicles, positions, current_pos, k,
                    perp_vec, line_dir, lineVars >>

\* return spawn_transforms
GenReturn ==
    /\ pc = "synth"
    /\ Len(spawn_transforms) = Len(positions)
    /\ pc' = IF script = "generate" THEN "done" ELSE "spawn"
    /\ UNCHANGED << inputs, i, genVars, lineVars, err, log >>

-----------------------------------------------------------------------------
\* One direct call of generate_spawn_positions, on any line of the bounds.

\* The locals before anything ran, and a fresh spawner (self.vehicles = []).
InitLocals ==
    /\ i = 0
    /\ num_vehicles = 0
    /\ positions = << >>
    /\ current_pos = 0
    /\ k = 0
    /\ spawn_transforms = << >>
    /\ perp_vec = << >>
    /\ line_dir = << >>
    /\ vehicle_blueprints = << >>
    /\ line_vehicle_blueprints = << >>
    /\ line_loaded_spawns = << >>
    /\ unassigned_spawn_index = 0
    /\ j = 0
    /\ spawned_vehicles = << >>
    /\ spawn_data_list = << >>
    /\ vehicles = << >>
    /\ all_spawn_data = << >>
    /\ world = << >>
    /\ err = ""
    /\ log = << >>

Sides == {"left", "right", "both", "middle"}

GenLines ==
    { [ start_loc |-> << 0, 0, 0 >>, end_loc |-> << len, 0, 0 >>,
        side_type |-> side, num_vehicles |-> n, min_spacing |-> s,
        has_exclude |-> FALSE, exclude_vehicles |-> << >> ] :
      len \in 0..MaxLen, side \in Sides, n \in 0..MaxCount,
      s \in -1..MaxSpacing }

InitGen ==
    /\ script = "generate"
    /\ parking_lines \in { << l >> : l \in GenLines }
    /\ library = << >>
    /\ load_file = [given |-> FALSE, ok |-> FALSE, data |-> << >>]
    /\ use_static_props = FALSE
    /\ env = [ground |-> { << >>, << 7 >> }, jitter |-> {0},
              prop |-> {"ok"}, spawn |-> {"ok"}]
    /\ pc = "gen"
    /\ InitLocals

NextGen == GenBegin \/ PrimaryStep \/ BackfillStep \/ Synthesize \/ GenReturn

SpecGen == InitGen /\ [][NextGen]_vars

-----------------------------------------------------------------------------
\* One direct call of generate_spawn_positions on a line in any of five axis
\* directions (or of length 0) with a start off the origin, with every yaw
\* jitter of the grid and a ground that is hit or missed.

Directions ==
    { << 1, 0, 0 >>, << -1, 0, 0 >>, << 0, 1, 0 >>, << 0, -1, 0 >>,
      << 0, 0, 1 >> }

PoseStart == << 1, 1, 2 >>

PoseLines ==
    { [ start_loc |-> PoseStart,
        end_loc |-> << PoseStart[1] + len * dir[1], PoseStart[2] + len * dir[2],
                       PoseStart[3] + len * dir[3] >>,
        side_type |-> side, num_vehicles |-> n, min_spacing |-> 1,
        has_exclude |-> FALSE, exclude_vehicles |-> << >> ] :
      dir \in Directions, len \in 0..MaxPoseLen,
      side \in {"left", "right", "both"}, n \in 1..MaxPoseCount }

InitPose ==
    /\ script = "generate"
    /\ parking_lines \in { << l >> : l \in PoseLines }
    /\ library = << >>
    /\ load_file = [given |-> FALSE, ok |-> FALSE, data |-> << >>]
    /\ use_static_props = FALSE
    /\ env = [ground |-> { << >>, << 7 >> }, jitter |-> Uniform(-2, 2),
              prop |-> {"ok"}, spawn |-> {"ok"}]
    /\ pc = "gen"
    /\ InitLocals

SpecPose == InitPose /\ [][NextGen]_vars

-----------------------------------------------------------------------------
\* Blueprint ids and keywords are strings, modelled as sequences of
\* one-character strings so that lower() and `in` do what Python does.

LowerOf == [c \in {"C", "A", "R", "V", "N", "T"} |->
               CASE c = "C" -> "c" [] c = "A" -> "a" [] c = "R" -> "r"
                 [] c = "V" -> "v" [] c = "N" -> "n" [] c = "T" -> "t"]

\* A lower() that leaves every character as it is.
LowerNone(str) == str

\* str.lower()
Lower(str) ==
    [n \in 1..Len(str) |->
        IF str[n] \in DOMAIN LowerOf THEN LowerOf[str[n]] ELSE str[n]]

\* keyword in str: keyword is a contiguous part of str.
Contains(str, keyword) ==
    \E at \in 0..(Len(str) - Len(keyword)) :
        \A n \in 1..Len(keyword) : str[at + n] = keyword[n]

\* The blueprint ids of the model's library.
CarC == << "c", "a", "r", ".", "c" >>
VanB == << "V", "a", "n", ".", "b" >>
TruckA == << "t", "r", "u", "c", "k", ".", "a" >>
BikeX == << "b", "i", "k", "e", ".", "x" >>

\* Exclude keywords of parking lines.
KwTruck == << "t", "r", "u", "c", "k" >>
KwVan == << "v", "a", "n" >>
KwCar == << "C", "A", "R" >>

\* filter_vehicles' excluded_keywords.
ExcludedKeywords ==
    << << "b", "i", "k", "e" >>,
       << "b", "i", "c", "y", "c", "l", "e" >>,
       << "m", "o", "t", "o", "r", "c", "y", "c", "l", "e" >>,
       << "g", "a", "z", "e", "l", "l", "e" >>,
       << "h", "a", "r", "l", "e", "y" >>,
       << "y", "a", "m", "a", "h", "a" >>,
       << "k", "a", "w", "a", "s", "a", "k", "i" >>,
       << "n", "i", "n", "j", "a" >>,
       << "v", "e", "s", "p", "a" >>,
       << "d", "i", "a", "m", "o", "n", "d", "b", "a", "c", "k" >>,
       << "b", "h", ".", "c", "r", "o", "s", "s", "b", "i", "k", "e" >>,
       << "e", "u", "r", "o", "p", "e", "a", "n", "_", "h", "g", "v" >>,
       << "f", "i", "r", "e", "t", "r", "u", "c", "k" >>,
       << "f", "u", "s", "o", "r", "o", "s", "a" >>,
       << "r", "a", "d" >> >>

\* The elements of seq that satisfy Keep, in order.
RECURSIVE SelectIds(_, _, _)
SelectIds(seq, keywords, lowerKeywords) ==
    IF seq = << >> THEN << >>
    ELSE LET bp_id_lower == Lower(Head(seq))
             is_excluded ==
                 \E n \in 1..Len(keywords) :
                     Contains(bp_id_lower,
                              IF lowerKeywords THEN Lower(keywords[n])
                              ELSE keywords[n])
             rest == SelectIds(Tail(seq), keywords, lowerKeywords)
         IN  IF is_excluded THEN rest ELSE << Head(seq) >> \o rest

\* filter_vehicles: keyword in bp.id.lower() for the fixed keyword list.
FilterVehicles(blueprints) == SelectIds(blueprints, ExcludedKeywords, FALSE)

\* A line filter that lets every blueprint through.
FilterVehiclesForLineAll(blueprints, exclude_keywords) == blueprints

\* filter_vehicles_for_line: keyword.lower() in bp.id.lower().
FilterVehiclesForLine(blueprints, exclude_keywords) ==
    SelectIds(blueprints, exclude_keywords, TRUE)

\* The row's exclude_vehicles: None for a row of five elements.
ExcludeVehicles(line) ==
    IF line.has_exclude THEN line.exclude_vehicles ELSE << >>

\* An emptiness test that never finds the pool empty.
PoolEmptyNever(pool) == FALSE

\* if not line_vehicle_blueprints
PoolEmpty(pool) == pool = << >>

-----------------------------------------------------------------------------
\* spawn_carpark and spawn_vehicles_along_line.

\* get_vehicle_mesh_path: the ids VEHICLE_MESH_MAPPING holds a mesh for.
VehicleMeshMapping == {CarC}

\* << mesh_path >>, or << >> for None.
GetVehicleMeshPath(vehicle_bp_id) ==
    IF vehicle_bp_id \in VehicleMeshMapping
    THEN << << "mesh", vehicle_bp_id >> >>
    ELSE << >>

\* carla.Transform(location, rotation) of a generated (transform, side) tuple.
TransformOf(t) ==
    [location |-> t.location, yaw |-> t.yaw, pitch |-> t.pitch, roll |-> t.roll]

\* The actor world.spawn_actor makes, with the line and the slot (the
\* iteration of the line's spawn loop) it was made for.
Actor(kind, blueprint, transform) ==
    [id |-> Len(world) + 1, kind |-> kind, blueprint |-> blueprint,
     transform |-> transform, line |-> i, slot |-> j]

\* spawn_parked_vehicle with the vehicle blueprint spawned after a prop that
\* was spawned.
SpawnParkedVehicleBoth(vehicle_bp, transform, vehicle_bp_id, prop_outcome, veh_outcome) ==
    LET mesh_path == GetVehicleMeshPath(vehicle_bp_id)
        try_prop == use_static_props /\ mesh_path # << >>
        prop == Actor("prop", mesh_path[1], transform)
        vehicle == Actor("vehicle", vehicle_bp, transform)
    IN  IF try_prop /\ prop_outcome = "ok"
        THEN [actor |-> << prop >>, created |-> << prop, vehicle >>,
              calls |-> << << "prop", vehicle_bp_id >>,
                           << "vehicle", vehicle_bp_id >> >>]
        ELSE [actor |-> IF veh_outcome = "ok" THEN << vehicle >> ELSE << >>,
              created |-> IF veh_outcome = "spawn_fail" THEN << >>
                          ELSE << vehicle >>,
              calls |-> (IF try_prop THEN << << "prop", vehicle_bp_id >> >>
                         ELSE << >>)
                        \o << << "vehicle", vehicle_bp_id >> >>]

\* spawn_parked_vehicle (and the try block of spawn_carpark.py, which is its
\* vehicle branch): prop_outcome and veh_outcome are what world.spawn_actor
\* and the calls on the new vehicle do.  actor is << the actor returned >> or
\* << >> for None; created lists the actors that now exist in the world;
\* calls lists the world.spawn_actor calls, each as << the kind of blueprint
\* passed, the vehicle id the slot is for >>.
SpawnParkedVehicle(vehicle_bp, transform, vehicle_bp_id, prop_outcome, veh_outcome) ==
    LET mesh_path == GetVehicleMeshPath(vehicle_bp_id)
        try_prop == use_static_props /\ mesh_path # << >>
        prop == Actor("prop", mesh_path[1], transform)
        vehicle == Actor("vehicle", vehicle_bp, transform)
    IN  IF try_prop /\ prop_outcome = "ok"
        THEN [actor |-> << prop >>, created |-> << prop >>,
              calls |-> << << "prop", vehicle_bp_id >> >>]
        ELSE [actor |-> IF veh_outcome = "ok" THEN << vehicle >> ELSE << >>,
              created |-> IF veh_outcome = "spawn_fail" THEN << >>
                          ELSE << vehicle >>,
              calls |-> (IF try_prop THEN << << "prop", vehicle_bp_id >> >>
                         ELSE << >>)
                        \o << << "vehicle", vehicle_bp_id >> >>]

\* The spawn_data dict of a slot.
SpawnData(t, vehicle_bp, parking_line_index) ==
    [location |-> t.location,
     rotation |-> [yaw |-> t.yaw, pitch |-> t.pitch, roll |-> t.roll],
     vehicle_type |-> vehicle_bp,
     side |-> t.side,
     parking_line_index |-> parking_line_index]

\* load_spawn_data's result: << >> stands for None and for an empty list
\* (both are false in `if load_file` / `if loaded_spawns_by_line`).
AllLoadedSpawns ==
    IF script = "static" /\ load_file.given /\ load_file.ok
    THEN load_file.data ELSE << >>

HasIndex(spawn) == "parking_line_index" \in DOMAIN spawn

\* loaded_spawns_by_line[idx]
LoadedForLine(idx) ==
    SelectSeq(AllLoadedSpawns,
              LAMBDA sp : HasIndex(sp) /\ sp.parking_line_index = idx)

\* loaded_spawns_by_line['unassigned']
LoadedUnassigned == SelectSeq(AllLoadedSpawns, LAMBDA sp : ~HasIndex(sp))

\* spawn_carpark up to its loop: the blueprint library, filter_vehicles, and
\* the loaded spawn data.
SpawnCarparkBegin ==
    /\ pc = "start"
    /\ IF library = << >> \/ FilterVehicles(library) = << >>
       THEN /\ Raise("ValueError")
            /\ UNCHANGED << vehicle_blueprints, i, all_spawn_data,
                            unassigned_spawn_index >>
       ELSE /\ vehicle_blueprints' = FilterVehicles(library)
            /\ all_spawn_data' = << >>
            /\ unassigned_spawn_index' = 0
            /\ i' = 0
            /\ pc' = "line"
            /\ err' = err
    /\ UNCHANGED << inputs, genVars, line_vehicle_blueprints,
                    line_loaded_spawns, j, spawned_vehicles, spawn_data_list,
                    vehicles, world, log >>

\* One iteration of spawn_carpark's loop up to the point where
\* spawn_vehicles_along_line has filtered the line's pool: the line's loaded
\* spawns, filter_vehicles_for_line, and the return for an empty pool.  The
\* locals of the calls the line makes start afresh.
LineBegin ==
    /\ pc = "line"
    /\ i < Len(parking_lines)
    /\ LET indexed == LoadedForLine(i)
           remaining == SubSeq(LoadedUnassigned, unassigned_spawn_index + 1,
                               Len(LoadedUnassigned))
           loaded == IF indexed # << >> THEN indexed ELSE remaining
           pool == FilterVehiclesForLine(vehicle_blueprints,
                                         ExcludeVehicles(Line))
       IN  /\ unassigned_spawn_index' =
                 IF indexed = << >>
                 THEN unassigned_spawn_index + Len(remaining)
                 ELSE unassigned_spawn_index
           /\ IF PoolEmpty(pool)
              THEN /\ log' = Append(log, Event("warn_pool"))
                   /\ i' = i + 1
                   /\ pc' = pc
                   /\ UNCHANGED << line_vehicle_blueprints,
                                   line_loaded_spawns >>
              ELSE /\ line_vehicle_blueprints' = pool
                   /\ line_loaded_spawns' = loaded
                   /\ pc' = IF loaded # << >> THEN "replay" ELSE "gen"
                   /\ UNCHANGED << i, log >>
    /\ j' = 0
    /\ spawned_vehicles' = << >>
    /\ spawn_data_list' = << >>
    /\ num_vehicles' = 0
    /\ positions' = << >>
    /\ current_pos' = 0
    /\ k' = 0
    /\ spawn_transforms' = << >>
    /\ perp_vec' = << >>
    /\ line_dir' = << >>
    /\ UNCHANGED << inputs, vehicle_blueprints, vehicles, all_spawn_data,
                    world, err >>

\* A slot whose failure also empties the line's list.
SlotEffectAbort(result, record) ==
    /\ spawned_vehicles' =
          IF result.actor = << >> THEN << >>
          ELSE spawned_vehicles \o result.actor
    /\ spawn_data_list' =
          IF script = "static" /\ result.actor # << >>
          THEN Append(spawn_data_list, record) ELSE spawn_data_list
    /\ world' = world \o result.created

\* What one slot adds to the line's lists and the world.
SlotEffect(result, record) ==
    /\ spawned_vehicles' = spawned_vehicles \o result.actor
    /\ spawn_data_list' =
          IF script = "static" /\ result.actor # << >>
          THEN Append(spawn_data_list, record) ELSE spawn_data_list
    /\ world' = world \o result.created

\* The world.spawn_actor calls of slot j.
SpawnCalls(calls) ==
    [m \in 1..Len(calls) |->
        Draw("spawn_actor", [slot |-> j, kind |-> calls[m][1],
                             id |-> calls[m][2]])]

\* What a slot's spawn adds to the log: its world.spawn_actor calls and, when
\* no actor came back, the "Failed to spawn vehicle" line for the slot.
SpawnLog(result) ==
    SpawnCalls(result.calls)
    \o (IF result.actor = << >> THEN << Draw("warn_spawn", j) >> ELSE << >>)

\* One iteration of `for transform, side in spawn_transforms`.
SpawnStep ==
    /\ pc = "spawn"
    /\ j < Len(spawn_transforms)
    /\ IF line_vehicle_blueprints = << >>
       THEN /\ Raise("IndexError")
            /\ UNCHANGED << j, spawned_vehicles, spawn_data_list, world, log >>
       ELSE \E b \in 1..Len(line_vehicle_blueprints),
               prop_outcome \in env.prop, veh_outcome \in env.spawn :
              LET t == spawn_transforms[j + 1]
                  vehicle_bp == line_vehicle_blueprints[b]
                  result == SpawnParkedVehicle(vehicle_bp, TransformOf(t),
                               vehicle_bp, prop_outcome, veh_outcome)
              IN  /\ SlotEffect(result, SpawnData(t, vehicle_bp, i))
                  /\ log' = (log \o << Draw("draw_bp", b) >>)
                            \o SpawnLog(result)
                  /\ j' = j + 1
                  /\ UNCHANGED << pc, err >>
    /\ UNCHANGED << inputs, i, genVars, vehicle_blueprints,
                    line_vehicle_blueprints, line_loaded_spawns,
                    unassigned_spawn_index, vehicles, all_spawn_data >>

\* The blueprint of the line's pool with this id: << bp >>, or << >> for None.
FindBlueprint(pool, vehicle_bp_id) ==
    SelectSeq(pool, LAMBDA bp : bp = vehicle_bp_id)

\* One iteration of `for spawn_info in loaded_spawns`.
ReplayStep ==
    /\ pc = "replay"
    /\ j < Len(line_loaded_spawns)
    /\ LET spawn_info == line_loaded_spawns[j + 1]
           transform == [location |-> spawn_info.location,
                         yaw |-> spawn_info.rotation.yaw,
                         pitch |-> spawn_info.rotation.pitch,
                         roll |-> spawn_info.rotation.roll]
           found == FindBlueprint(line_vehicle_blueprints,
                                  spawn_info.vehicle_type)
       IN  IF found = << >>
           THEN /\ log' = Append(log, Event("warn_type"))
                /\ UNCHANGED << spawned_vehicles, spawn_data_list, world >>
           ELSE \E prop_outcome \in env.prop, veh_outcome \in env.spawn :
                  LET result == SpawnParkedVehicle(found[1], transform,
                                   spawn_info.vehicle_type, prop_outcome,
                                   veh_outcome)
                  IN  /\ SlotEffect(result, spawn_info)
                      /\ log' = log \o SpawnLog(result)
    /\ j' = j + 1
    /\ UNCHANGED << inputs, pc, i, genVars, vehicle_blueprints,
                    line_vehicle_blueprints, line_loaded_spawns,
                    unassigned_spawn_index, vehicles, all_spawn_data, err >>

\* A line end that puts the line's actors in front of the earlier ones.
LineEndPrepend ==
    /\ \/ pc = "spawn" /\ j = Len(spawn_transforms)
       \/ pc = "replay" /\ j = Len(line_loaded_spawns)
    /\ vehicles' = spawned_vehicles \o vehicles
    /\ all_spawn_data' = all_spawn_data \o spawn_data_list
    /\ i' = i + 1
    /\ pc' = "line"
    /\ UNCHANGED << inputs, genVars, vehicle_blueprints,
                    line_vehicle_blueprints, line_loaded_spawns,
                    unassigned_spawn_index, j, spawned_vehicles,
                    spawn_data_list, world, err, log >>

\* spawn_vehicles_along_line returns and spawn_carpark extends its lists.
LineEnd ==
    /\ \/ pc = "spawn" /\ j = Len(spawn_transforms)
       \/ pc = "replay" /\ j = Len(line_loaded_spawns)
    /\ vehicles' = vehicles \o spawned_vehicles
    /\ all_spawn_data' = all_spawn_data \o spawn_data_list
    /\ i' = i + 1
    /\ pc' = "line"
    /\ UNCHANGED << inputs, genVars, vehicle_blueprints,
                    line_vehicle_blueprints, line_loaded_spawns,
                    unassigned_spawn_index, j, spawned_vehicles,
                    spawn_data_list, world, err, log >>

\* return self.vehicles
SpawnCarparkReturn ==
    /\ pc = "line"
    /\ i = Len(parking_lines)
    /\ pc' = "done"
    /\ UNCHANGED << inputs, i, genVars, lineVars, err, log >>

-----------------------------------------------------------------------------
\* A batch passed to spawn_carpark: up to MaxLines rows, each a line with
\* room for one vehicle, with a valid or an invalid side, and with no exclude
\* list or one that excludes the whole pool.

BatchLines ==
    { [ start_loc |-> << 0, 0, 0 >>, end_loc |-> << 1, 0, 0 >>,
        side_type |-> side, num_vehicles |-> 1, min_spacing |-> 1,
        has_exclude |-> ex, exclude_vehicles |->
            IF ex THEN << KwCar, KwTruck, KwVan >> ELSE << >> ] :
      side \in {"left", "middle"}, ex \in BOOLEAN }

RECURSIVE Batches(_)
Batches(n) ==
    IF n = 0 THEN { << >> }
    ELSE LET shorter == Batches(n - 1)
         IN  shorter \cup
             { Append(b, l) : b \in {x \in shorter : Len(x) = n - 1},
                              l \in BatchLines }

\* The record an earlier run saved for a left slot at the start of a line.
Recorded(vehicle_type) ==
    [location |-> << 0, -ParkingOffset, 7 + SpawnHeight >>,
     rotation |-> [yaw |-> 90, pitch |-> 0, roll |-> 0],
     vehicle_type |-> vehicle_type,
     side |-> "left"]

WithIndex(rec, idx) ==
    [f \in DOMAIN rec \cup {"parking_line_index"} |->
        IF f = "parking_line_index" THEN idx ELSE rec[f]]

\* A file with one record per line index, and a file in the legacy format
\* (no parking_line_index), one of whose vehicle types the library lacks.
IndexedFile == [n \in 1..MaxLines |-> WithIndex(Recorded(CarC), n - 1)]

LegacyFile == << Recorded(TruckA), Recorded(CarC) >>

LoadFiles ==
    { [given |-> FALSE, ok |-> FALSE, data |-> << >>],
      [given |-> TRUE, ok |-> FALSE, data |-> << >>],
      [given |-> TRUE, ok |-> TRUE, data |-> IndexedFile],
      [given |-> TRUE, ok |-> TRUE, data |-> LegacyFile] }

Init ==
    /\ script \in {"dynamic", "static"}
    /\ parking_lines \in Batches(MaxLines) \ { << >> }
    /\ library \in { << CarC, VanB, BikeX >>, << BikeX >> }
    /\ load_file \in IF script = "static" THEN LoadFiles
                     ELSE { [given |-> FALSE, ok |-> FALSE, data |-> << >>] }
    /\ use_static_props \in IF script = "static" THEN BOOLEAN ELSE {FALSE}
    /\ env = [ground |-> { << >>, << 7 >> }, jitter |-> {0},
              prop |-> {"ok", "fail"}, spawn |-> {"ok", "spawn_fail"}]
    /\ pc = "start"
    /\ InitLocals

Next ==
    \/ SpawnCarparkBegin
    \/ LineBegin
    \/ GenBegin
    \/ PrimaryStep
    \/ BackfillStep
    \/ Synthesize
    \/ GenReturn
    \/ SpawnStep
    \/ ReplayStep
    \/ LineEnd
    \/ SpawnCarparkReturn

Spec == Init /\ [][Next]_vars

-----------------------------------------------------------------------------
\* The spawn data file: save_spawn_data writes it with json.dump, a later run
\* reads it with json.load.  A number is written as its decimal text and
\* read back from it; a string is written as it is.

DigitChars == << "0", "1", "2", "3", "4", "5", "6", "7", "8", "9" >>

RECURSIVE Digits(_)
Digits(n) ==
    IF n < 10 THEN << DigitChars[n + 1] >>
    ELSE Append(Digits(n \div 10), DigitChars[(n % 10) + 1])

\* The text json.dump writes for a number.
NumText(n) == IF n < 0 THEN << "-" >> \o Digits(-n) ELSE Digits(n)

DigitValue(c) == CHOOSE d \in 0..9 : DigitChars[d + 1] = c

RECURSIVE ParseDigits(_)
ParseDigits(text) ==
    IF text = << >> THEN 0
    ELSE 10 * ParseDigits(SubSeq(text, 1, Len(text) - 1))
         + DigitValue(text[Len(text)])

\* A reader that loses the sign.
ParseNumAbs(text) ==
    IF Head(text) = "-" THEN ParseDigits(Tail(text)) ELSE ParseDigits(text)

\* The number json.load reads from a number's text.
ParseNum(text) ==
    IF Head(text) = "-" THEN -ParseDigits(Tail(text)) ELSE ParseDigits(text)

\* json.dump(spawn_data, f): one object per spawn record.
JsonDump(spawn_data) ==
    [n \in 1..Len(spawn_data) |->
        LET sp == spawn_data[n]
        IN  [location |-> [x |-> NumText(sp.location[1]),
                           y |-> NumText(sp.location[2]),
                           z |-> NumText(sp.location[3])],
             rotation |-> [yaw |-> NumText(sp.rotation.yaw),
                           pitch |-> NumText(sp.rotation.pitch),
                           roll |-> NumText(sp.rotation.roll)],
             vehicle_type |-> sp.vehicle_type,
             side |-> sp.side,
             parking_line_index |-> NumText(sp.parking_line_index)]]

\* json.load(f) of a file json.dump wrote.
JsonLoad(file) ==
    [n \in 1..Len(file) |->
        LET o == file[n]
        IN  [location |-> << ParseNum(o.location.x), ParseNum(o.location.y),
                             ParseNum(o.location.z) >>,
             rotation |-> [yaw |-> ParseNum(o.rotation.yaw),
                           pitch |-> ParseNum(o.rotation.pitch),
                           roll |-> ParseNum(o.rotation.roll)],
             vehicle_type |-> o.vehicle_type,
             side |-> o.side,
             parking_line_index |-> ParseNum(o.parking_line_index)]]

\* main of spawn_carpark_static.py run without --file saves the spawn data
\* it got back; a later run of the script is given that file (with the same
\* parking lines, library and constructor arguments) and starts from a fresh
\* spawner.  saved keeps what the first run handed to save_spawn_data; world
\* and log start again so that they hold the second run's actors and events.
SaveAndReplay ==
    /\ pc = "done"
    /\ script = "static"
    /\ ~load_file.given
    /\ load_file' = [given |-> TRUE, ok |-> TRUE,
                     data |-> JsonLoad(JsonDump(all_spawn_data)),
                     saved |-> all_spawn_data]
    /\ pc' = "start"
    /\ i' = 0
    /\ num_vehicles' = 0
    /\ positions' = << >>
    /\ current_pos' = 0
    /\ k' = 0
    /\ spawn_transforms' = << >>
    /\ perp_vec' = << >>
    /\ line_dir' = << >>
    /\ vehicle_blueprints' = << >>
    /\ line_vehicle_blueprints' = << >>
    /\ line_loaded_spawns' = << >>
    /\ unassigned_spawn_index' = 0
    /\ j' = 0
    /\ spawned_vehicles' = << >>
    /\ spawn_data_list' = << >>
    /\ vehicles' = << >>
    /\ all_spawn_data' = << >>
    /\ world' = << >>
    /\ err' = ""
    /\ log' = << >>
    /\ UNCHANGED << script, parking_lines, library, use_static_props, env >>

\* Batches whose lines differ: a line with room for two vehicles on either
\* side that excludes trucks and vans, a line with room for one vehicle on
\* the left that excludes nothing, and a line that excludes the whole pool.
KwVanUpper == << "V", "A", "N" >>

LineTwo ==
    [ start_loc |-> << 0, 0, 0 >>, end_loc |-> << 2, 0, 0 >>,
      side_type |-> "both", num_vehicles |-> 2, min_spacing |-> 1,
      has_exclude |-> TRUE, exclude_vehicles |-> << KwTruck, KwVanUpper >> ]

LineOne ==
    [ start_loc |-> << 0, 9, 0 >>, end_loc |-> << 1, 9, 0 >>,
      side_type |-> "left", num_vehicles |-> 1, min_spacing |-> 1,
      has_exclude |-> FALSE, exclude_vehicles |-> << >> ]

LineSkip ==
    [ start_loc |-> << 0, 5, 0 >>, end_loc |-> << 1, 5, 0 >>,
      side_type |-> "left", num_vehicles |-> 1, min_spacing |-> 1,
      has_exclude |-> TRUE, exclude_vehicles |-> << KwCar, KwTruck, KwVan >> ]

InitReplay ==
    /\ script \in {"dynamic", "static"}
    /\ parking_lines \in { << LineTwo, LineOne >>, << LineOne, LineTwo >>,
                           << LineTwo, LineSkip, LineOne >> }
    /\ library = << CarC, VanB, BikeX >>
    /\ load_file = [given |-> FALSE, ok |-> FALSE, data |-> << >>]
    /\ use_static_props \in IF script = "static" THEN BOOLEAN ELSE {FALSE}
    /\ env = [ground |-> { << 7 >> }, jitter |-> {0},
              prop |-> {"ok", "fail"},
              spawn |-> {"ok", "spawn_fail", "post_fail"}]
    /\ pc = "start"
    /\ InitLocals

NextReplay == Next \/ SaveAndReplay

SpecReplay == InitReplay /\ [][NextReplay]_vars

-----------------------------------------------------------------------------
\* One direct call of filter_vehicles_for_line, on any pool of up to MaxPool
\* blueprints and any of the keyword lists (None included).

VanLower == << "v", "a", "n", ".", "b" >>

PoolIds == {TruckA, VanB, VanLower, CarC}

RECURSIVE Pools(_)
Pools(n) ==
    IF n = 0 THEN { << >> }
    ELSE LET shorter == Pools(n - 1)
         IN  shorter \cup
             { Append(pool, id) :
                 pool \in {x \in shorter : Len(x) = n - 1},
                 id \in PoolIds }

\* The exclude_keywords arguments: None is has_exclude = FALSE.
KeywordLists ==
    { [has_exclude |-> FALSE, exclude_vehicles |-> << >>],
      [has_exclude |-> TRUE, exclude_vehicles |-> << >>],
      [has_exclude |-> TRUE, exclude_vehicles |-> << KwTruck >>],
      [has_exclude |-> TRUE, exclude_vehicles |-> << KwVan >>],
      [has_exclude |-> TRUE, exclude_vehicles |-> << KwCar >>],
      [has_exclude |-> TRUE, exclude_vehicles |-> << KwTruck, KwVan >>],
      [has_exclude |-> TRUE, exclude_vehicles |-> << KwVanUpper, KwCar >>] }

FilterLines ==
    { [ start_loc |-> << 0, 0, 0 >>, end_loc |-> << 1, 0, 0 >>,
        side_type |-> "left", num_vehicles |-> 1, min_spacing |-> 1,
        has_exclude |-> kl.has_exclude,
        exclude_vehicles |-> kl.exclude_vehicles ] : kl \in KeywordLists }

InitFilter ==
    /\ script = "filter"
    /\ parking_lines \in { << l >> : l \in FilterLines }
    /\ library = << >>
    /\ load_file = [given |-> FALSE, ok |-> FALSE, data |-> << >>]
    /\ use_static_props = FALSE
    /\ env = [ground |-> { << >> }, jitter |-> {0},
              prop |-> {"ok"}, spawn |-> {"ok"}]
    /\ pc = "filter"
    /\ vehicle_blueprints \in Pools(MaxPool)
    /\ i = 0
    /\ num_vehicles = 0
    /\ positions = << >>
    /\ current_pos = 0
    /\ k = 0
    /\ spawn_transforms = << >>
    /\ perp_vec = << >>
    /\ line_dir = << >>
    /\ line_vehicle_blueprints = << >>
    /\ line_loaded_spawns = << >>
    /\ unassigned_spawn_index = 0
    /\ j = 0
    /\ spawned_vehicles = << >>
    /\ spawn_data_list = << >>
    /\ vehicles = << >>
    /\ all_spawn_data = << >>
    /\ world = << >>
    /\ err = ""
    /\ log = << >>

\* The call and its return.
FilterCall ==
    /\ pc = "filter"
    /\ line_vehicle_blueprints' =
          FilterVehiclesForLine(vehicle_blueprints, ExcludeVehicles(Line))
    /\ pc' = "done"
    /\ UNCHANGED << inputs, i, genVars, vehicle_blueprints, line_loaded_spawns,
                    unassigned_spawn_index, j, spawned_vehicles,
                    spawn_data_list, vehicles, all_spawn_data, world, err,
                    log >>

NextFilter == FilterCall

SpecFilter == InitFilter /\ [][NextFilter]_vars

-----------------------------------------------------------------------------
\* A spawner used for several calls: spawn_carpark up to MaxCalls times and
\* cleanup up to MaxCalls times, in any order in which a caller can make them
\* (the first call is spawn_carpark; a call starts when the one before has
\* returned or raised).  log keeps the events of all the calls; "call" marks
\* the start of a further spawn_carpark, "cleanup" the start of a cleanup
\* with the ids self.vehicles holds, "destroy" one vehicle.destroy().

CallsMade == 1 + Len(SelectSeq(log, LAMBDA e : e.ev = "call"))

CleanupsMade == Len(SelectSeq(log, LAMBDA e : e.ev = "cleanup"))

\* No method of the spawner is running.
Idle == pc \in {"done", "raised", "idle"}

\* A further spawner.spawn_carpark(parking_lines, ...) with the same
\* arguments: self.vehicles is the list the earlier calls left.
SpawnCarparkAgain ==
    /\ Idle
    /\ CallsMade < MaxCalls
    /\ pc' = "start"
    /\ err' = ""
    /\ log' = Append(log, Event("call"))
    /\ UNCHANGED << inputs, i, genVars, lineVars >>

\* What vehicle.destroy() may do: return, or raise.
DestroyOutcomes == {"ok", "raise"}

\* cleanup up to its loop.
CleanupBegin ==
    /\ Idle
    /\ CleanupsMade < MaxCalls
    /\ j' = 0
    /\ log' = Append(log, Draw("cleanup",
                  [n \in 1..Len(vehicles) |-> vehicles[n].id]))
    /\ pc' = "cleanup"
    /\ UNCHANGED << inputs, i, genVars, vehicle_blueprints,
                    line_vehicle_blueprints, line_loaded_spawns,
                    unassigned_spawn_index, spawned_vehicles, spawn_data_list,
                    vehicles, all_spawn_data, world, err >>

\* One iteration of `for vehicle in self.vehicles`: the except swallows
\* whatever destroy raises.
CleanupStep ==
    /\ pc = "cleanup"
    /\ j < Len(vehicles)
    /\ \E outcome \in DestroyOutcomes :
          log' = Append(log, Draw("destroy", << vehicles[j + 1].id, outcome >>))
    /\ j' = j + 1
    /\ UNCHANGED << inputs, pc, i, genVars, vehicle_blueprints,
                    line_vehicle_blueprints, line_loaded_spawns,
                    unassigned_spawn_index, spawned_vehicles, spawn_data_list,
                    vehicles, all_spawn_data, world, err >>

\* cleanup's end without the clear.
CleanupEndKeep ==
    /\ pc = "cleanup"
    /\ j = Len(vehicles)
    /\ pc' = "idle"
    /\ UNCHANGED << inputs, i, genVars, lineVars, err, log >>

\* self.vehicles.clear() and the return.
CleanupEnd ==
    /\ pc = "cleanup"
    /\ j = Len(vehicles)
    /\ vehicles' = << >>
    /\ pc' = "idle"
    /\ UNCHANGED << inputs, i, genVars, vehicle_blueprints,
                    line_vehicle_blueprints, line_loaded_spawns,
                    unassigned_spawn_index, j, spawned_vehicles,
                    spawn_data_list, all_spawn_data, world, err, log >>

InitCalls ==
    /\ script \in {"dynamic", "static"}
    /\ parking_lines = << LineOne >>
    /\ library = << CarC, BikeX >>
    /\ load_file \in
          IF script = "static"
          THEN { [given |-> FALSE, ok |-> FALSE, data |-> << >>],
                 [given |-> TRUE, ok |-> TRUE, data |-> IndexedFile] }
          ELSE { [given |-> FALSE, ok |-> FALSE, data |-> << >>] }
    /\ use_static_props \in IF script = "static" THEN BOOLEAN ELSE {FALSE}
    /\ env = [ground |-> { << 7 >> }, jitter |-> {0},
              prop |-> {"ok", "fail"},
              spawn |-> {"ok", "spawn_fail"}]
    /\ pc = "start"
    /\ InitLocals

NextCalls ==
    \/ Next
    \/ SpawnCarparkAgain
    \/ CleanupBegin
    \/ CleanupStep
    \/ CleanupEnd

SpecCalls == InitCalls /\ [][NextCalls]_vars

-----------------------------------------------------------------------------
\* Properties of generate_spawn_positions (checked under SpecGen).

\* The sides the specification names: left, right, both.
NamedSide(side_type) == side_type \in {"left", "right", "both"}

\* The call under SpecGen has a valid side and a positive min_spacing.
ValidCall == NamedSide(Line.side_type) /\ Line.min_spacing > 0

\* floor(L / S) of the line, for S > 0.
Capacity == LineLength(Line) \div Line.min_spacing

Warned == \E n \in 1..Len(log) : log[n].ev = "warn_capacity"

Drew == \E n \in 1..Len(log) :
           log[n].ev \in {"draw_spacing", "draw_side", "draw_yaw", "draw_bp"}

Queried == \E n \in 1..Len(log) : log[n].ev = "query"

\* positions[n] was appended by the backfill loop (the primary loop appended
\* the first k).
ByBackfill(n) == n > k /\ n <= Len(positions)

\* C1: for a valid side and a positive min_spacing, the call never holds more
\* than floor(L / S) placements, and every distance lies in [0, L].
C1_CapacityAndRange ==
    ValidCall =>
        /\ Len(positions) <= Capacity
        /\ Len(spawn_transforms) <= Capacity
        /\ \A n \in 1..Len(positions) :
              positions[n] >= 0 /\ positions[n] <= LineLength(Line)
        /\ \A n \in 1..Len(spawn_transforms) :
              spawn_transforms[n].pos = positions[n]

\* A call that returned a full line: floor(L / S) >= 3 placements, the last
\* one exactly min_spacing before the end.
C1_Witness ==
    /\ ValidCall
    /\ pc = "done"
    /\ Capacity >= 3
    /\ Len(spawn_transforms) = Capacity
    /\ positions[Len(positions)] + Line.min_spacing = LineLength(Line)

\* C2: the distances are strictly increasing in generation order, across the
\* primary and the backfill pass.
C2_StrictlyIncreasing ==
    ValidCall =>
        \A a, b \in 1..Len(positions) : a < b => positions[a] < positions[b]

\* A returned list of three placements whose last came from the backfill pass.
C2_Witness ==
    /\ ValidCall
    /\ pc = "done"
    /\ Len(positions) >= 3
    /\ ByBackfill(Len(positions))
    /\ Len(spawn_transforms) = Len(positions)

\* C3: the first placement is at distance 0 and consecutive placements are
\* at least min_spacing and at most 2 x min_spacing apart, the gap in front
\* of a backfill placement included.
C3_FirstAtZeroAndGaps ==
    ValidCall =>
        /\ positions # << >> => positions[1] = 0
        /\ \A n \in 1..(Len(positions) - 1) :
              /\ positions[n + 1] - positions[n] >= Line.min_spacing
              /\ positions[n + 1] - positions[n] <= 2 * Line.min_spacing

\* A backfill placement exactly 2 x min_spacing after its predecessor.
C3_Witness ==
    /\ ValidCall
    /\ pc = "done"
    /\ Len(positions) >= 2
    /\ ByBackfill(Len(positions))
    /\ positions[Len(positions)] - positions[Len(positions) - 1]
          = 2 * Line.min_spacing

\* C4: the effective count is min(requested, floor(L / S)); the capacity
\* warning is printed exactly when the requested count exceeds the capacity;
\* the placements never outnumber the effective count.
C4_EffectiveCount ==
    ValidCall =>
        /\ Warned => Line.num_vehicles > Capacity
        /\ pc # "gen" =>
              /\ Line.num_vehicles > Capacity => Warned
              /\ num_vehicles = Min(Line.num_vehicles, Capacity)
              /\ Len(positions) <= num_vehicles
              /\ Len(spawn_transforms) <= num_vehicles

\* A clamped call that returned: more requested than fit, the warning
\* printed, and as many placements as the capacity.
C4_Witness ==
    /\ ValidCall
    /\ pc = "done"
    /\ Line.num_vehicles > Capacity
    /\ Capacity >= 2
    /\ Warned
    /\ Len(spawn_transforms) = Capacity

\* C5: side "left" gives only left placements, "right" only right ones, and
\* "both" gives each placement a side of {left, right}.
C5_SideAssignment ==
    \A n \in 1..Len(spawn_transforms) :
        /\ Line.side_type = "left" => spawn_transforms[n].side = "left"
        /\ Line.side_type = "right" => spawn_transforms[n].side = "right"
        /\ Line.side_type = "both" =>
              spawn_transforms[n].side \in {"left", "right"}

\* A "both" line whose placements went left, right, left: the side of one
\* placement does not fix the side of the next.
C5_Witness ==
    /\ pc = "done"
    /\ Line.side_type = "both"
    /\ Len(spawn_transforms) = 3
    /\ spawn_transforms[1].side = "left"
    /\ spawn_transforms[2].side = "right"
    /\ spawn_transforms[3].side = "left"

\* C8: with a side other than left, right, both the call ends in ValueError
\* before any random draw, any ground query and any pose.
C8_InvalidSideRaisesFirst ==
    ~NamedSide(Line.side_type) =>
        /\ ~Drew
        /\ ~Queried
        /\ positions = << >>
        /\ spawn_transforms = << >>
        /\ pc \in {"gen", "raised"}
        /\ pc = "raised" => err = "ValueError"

\* The ValueError of a call that had room and vehicles to place.
C8_Witness ==
    /\ ~NamedSide(Line.side_type)
    /\ pc = "raised"
    /\ err = "ValueError"
    /\ Line.min_spacing > 0
    /\ Line.num_vehicles >= 2
    /\ LineLength(Line) >= 2 * Line.min_spacing

\* C9: a call with a negative min_spacing ends with an error, never with a
\* normal return.
C9_NegativeSpacingFails ==
    Line.min_spacing < 0 => pc # "done"

-----------------------------------------------------------------------------
\* Properties of spawn_carpark (checked under Spec).

\* The call got past the blueprint checks and into its loop over the lines.
InLoop == pc \notin {"start"} /\ vehicle_blueprints # << >>

\* C6: a failure on line N never affects lines N+1..end: the call does not
\* end on an error while lines after the failing one are still unprocessed.
C6_FailureSparesLaterLines ==
    (InLoop /\ pc = "raised") => i + 1 = Len(parking_lines)

\* C7: every parking line with an invalid side makes spawn_carpark fail: the
\* call never returns normally from a batch that holds such a line.
C7_InvalidSideAlwaysFails ==
    (InLoop /\ pc = "done") =>
        \A n \in 1..Len(parking_lines) : NamedSide(parking_lines[n].side_type)

\* The events of line n (0-based) in the log.
LineEvents(n) == { m \in 1..Len(log) : log[m].line = n }

\* Line n's pool is empty after the exclude-keyword filtering.
EmptyPoolLine(n) ==
    FilterVehiclesForLine(vehicle_blueprints,
                          ExcludeVehicles(parking_lines[n + 1])) = << >>

\* C10: a line whose filtered pool is empty is skipped: nothing is drawn,
\* asked or spawned for it, its only trace is one warning, no error is
\* raised on it, and the loop goes on to the next line.
C10_EmptyPoolLineSkipped ==
    InLoop =>
        \A n \in 0..(Len(parking_lines) - 1) :
            EmptyPoolLine(n) =>
                /\ \A m \in LineEvents(n) : log[m].ev = "warn_pool"
                /\ \A a \in 1..Len(world) : world[a].line # n
                /\ n = i => pc = "line"
                /\ n < i => Cardinality(LineEvents(n)) = 1

\* A batch that returned: its first line was skipped for its empty pool and
\* its second line spawned an actor.
C10_Witness ==
    /\ pc = "done"
    /\ Len(parking_lines) = 2
    /\ EmptyPoolLine(0)
    /\ NamedSide(parking_lines[1].side_type)
    /\ \E m \in LineEvents(0) : log[m].ev = "warn_pool"
    /\ \E a \in 1..Len(vehicles) : vehicles[a].line = 1

-----------------------------------------------------------------------------
\* Properties of a batch with several slots per line and of its replay
\* (checked under SpecReplay).

\* Line n's positions come from the loaded spawn data.
Replayed(n) == AllLoadedSpawns # << >> /\ LoadedForLine(n) # << >>

\* The events ev of line n, in order.
EventsOf(ev, n) == SelectSeq(log, LAMBDA e : e.ev = ev /\ e.line = n)

\* The slots line n holds: its loaded records, or the poses generated for it.
Attempts(n) ==
    IF Replayed(n) THEN Len(LoadedForLine(n))
    ELSE Len(EventsOf("draw_yaw", n))

\* The slots of line n that ended with "Failed to spawn vehicle".
FailedSlots(n) ==
    { log[m].val : m \in { x \in LineEvents(n) : log[x].ev = "warn_spawn" } }

\* The slots of line n that have an actor in list.
KeptSlots(list, n) ==
    { list[a].slot : a \in { x \in 1..Len(list) : list[x].line = n } }

\* C11: a slot whose spawn failed is missing from the result and nothing
\* else is: of every finished line, each slot is either reported failed or
\* has its actor in the result, the line in progress has dealt with every
\* slot up to the current one, and no error leaves spawn_carpark.
C11_SpawnFailureDropsOneSlot ==
    /\ pc # "raised"
    /\ \A n \in 0..(i - 1) :
          /\ FailedSlots(n) \cup KeptSlots(vehicles, n) = 0..(Attempts(n) - 1)
          /\ FailedSlots(n) \cap KeptSlots(vehicles, n) = {}
    /\ pc \in {"spawn", "replay"} =>
          /\ FailedSlots(i) \cup KeptSlots(spawned_vehicles, i) = 0..(j - 1)
          /\ FailedSlots(i) \cap KeptSlots(spawned_vehicles, i) = {}

\* A first run that returned: the first slot of the two-slot line failed,
\* its second slot and the slot of the following line have their actors.
C11_Witness ==
    /\ pc = "done"
    /\ ~load_file.given
    /\ parking_lines = << LineTwo, LineOne >>
    /\ Attempts(0) = 2
    /\ FailedSlots(0) = {0}
    /\ KeptSlots(vehicles, 0) = {1}
    /\ KeptSlots(vehicles, 1) = {0}

\* The run is a replay: spawn_carpark was given a load file that loaded.
ReplayRun == script = "static" /\ load_file.given /\ load_file.ok

\* C12: a replay run never calls generate_spawn_positions and never draws a
\* random position, side, yaw or candidate, whatever the line.
C12_ReplayNeverRandomizes ==
    ReplayRun =>
        /\ pc \notin {"gen", "primary", "backfill", "synth"}
        /\ ~Drew

\* The vehicle type an actor stands for: the blueprint's id, or the id whose
\* mesh a static prop carries.
CandidateOf(actor) ==
    IF actor.kind = "prop" THEN actor.blueprint[2] ELSE actor.blueprint

\* Every world.spawn_actor call of the run gave an actor that the run kept.
EverySpawnSucceeded ==
    Len(SelectSeq(log, LAMBDA e : e.ev = "spawn_actor")) = Len(vehicles)

\* The actors of the lines whose positions came from the loaded spawn data.
ReplayedActors == SelectSeq(vehicles, LAMBDA a : Replayed(a.line))

\* C13: a replay in which every spawn succeeds has, for the records the
\* earlier run saved, one actor each, in the saved order, at the saved
\* location and rotation and of the saved vehicle type.
C13_RoundTrip ==
    (ReplayRun /\ pc = "done" /\ EverySpawnSucceeded) =>
        /\ Len(ReplayedActors) = Len(load_file.saved)
        /\ \A n \in 1..Len(ReplayedActors) :
              LET actor == ReplayedActors[n]
                  rec == load_file.saved[n]
              IN  /\ actor.transform.location = rec.location
                  /\ actor.transform.yaw = rec.rotation.yaw
                  /\ actor.transform.pitch = rec.rotation.pitch
                  /\ actor.transform.roll = rec.rotation.roll
                  /\ CandidateOf(actor) = rec.vehicle_type
                  /\ actor.line = rec.parking_line_index

\* A replay that returned with every spawn succeeding: three saved records
\* on two lines, slots on both sides of the line (one with a negative
\* coordinate), and one actor for each record.
C13_Witness ==
    /\ ReplayRun
    /\ pc = "done"
    /\ EverySpawnSucceeded
    /\ Len(load_file.saved) = 3
    /\ Len(ReplayedActors) = 3
    /\ Len(vehicles) = 3
    /\ \E a, b \in 1..3 :
          /\ load_file.saved[a].side = "left"
          /\ load_file.saved[a].location[2] < 0
          /\ load_file.saved[b].side = "right"
          /\ load_file.saved[a].parking_line_index
                = load_file.saved[b].parking_line_index

\* The values of the draws ev of line n, in order.
DrawsOf(ev, n) ==
    LET events == EventsOf(ev, n)
    IN  [m \in 1..Len(events) |-> events[m].val]

\* The distances a sequence of spacing draws gives on a line of length len,
\* starting at cur: a draw that fits places a vehicle at the current
\* distance and advances by the draw, a draw that does not fit places none.
RECURSIVE PackFrom(_, _, _)
PackFrom(cur, spacings, len) ==
    IF spacings = << >> THEN << >>
    ELSE IF cur + Head(spacings) <= len
         THEN << cur >> \o PackFrom(cur + Head(spacings), Tail(spacings), len)
         ELSE PackFrom(cur, Tail(spacings), len)

\* The side of the n-th pose of the line in progress, from the line's side
\* and the side draws.
SideFromDraws(n) ==
    IF Line.side_type = "both" THEN DrawsOf("draw_side", i)[n]
    ELSE Line.side_type

DistanceOf(actor) ==
    actor.transform.location[1] - parking_lines[actor.line + 1].start_loc[1]

\* C15: self.vehicles is in line order and, within a line, in slot order;
\* the actors of a generated line are in increasing distance along the line,
\* also while the line is in progress; this holds with slots dropped and
\* lines skipped in between.
C15_LineAndSlotOrder ==
    /\ \A a, b \in 1..Len(vehicles) :
          a < b =>
              \/ vehicles[a].line < vehicles[b].line
              \/ /\ vehicles[a].line = vehicles[b].line
                 /\ vehicles[a].slot < vehicles[b].slot
                 /\ ~Replayed(vehicles[a].line) =>
                       DistanceOf(vehicles[a]) < DistanceOf(vehicles[b])
    /\ pc = "spawn" =>
          \A a, b \in 1..Len(spawned_vehicles) :
              a < b =>
                  positions[spawned_vehicles[a].slot + 1]
                      < positions[spawned_vehicles[b].slot + 1]

\* A first run that returned from three lines: two actors on the first line
\* at distances 0 and 1, the second line skipped for its empty pool, the
\* slot of the third line dropped or kept after them.
C15_Witness ==
    /\ pc = "done"
    /\ ~load_file.given
    /\ parking_lines = << LineTwo, LineSkip, LineOne >>
    /\ Len(vehicles) = 3
    /\ DistanceOf(vehicles[1]) = 0
    /\ DistanceOf(vehicles[2]) = 1
    /\ vehicles[3].line = 2
    /\ \E m \in LineEvents(1) : log[m].ev = "warn_pool"

\* Two characters are the same letter, whatever their case.
SameLetter(a, b) ==
    LET pairs == { << "c", "C" >>, << "a", "A" >>, << "r", "R" >>,
                   << "v", "V" >>, << "n", "N" >>, << "t", "T" >> }
    IN  a = b \/ << a, b >> \in pairs \/ << b, a >> \in pairs

\* keyword occurs in str as a contiguous part, case ignored.
MatchesAnyCase(str, keyword) ==
    \E at \in 0..(Len(str) - Len(keyword)) :
        \A n \in 1..Len(keyword) : SameLetter(str[at + n], keyword[n])

\* No keyword of the sequence occurs in str.
FreeOf(str, keywords) ==
    \A n \in 1..Len(keywords) : ~MatchesAnyCase(str, keywords[n])

\* C16: every actor the world holds was spawned from a blueprint of the
\* library whose id contains no exclude keyword of the actor's line and no
\* keyword of the two-wheeler blocklist, in a generated and in a replayed
\* run.
C16_CandidateFromFilteredPool ==
    \A a \in 1..Len(world) :
        LET id == CandidateOf(world[a])
            line == parking_lines[world[a].line + 1]
        IN  /\ \E n \in 1..Len(library) : library[n] = id
            /\ FreeOf(id, ExcludeVehicles(line))
            /\ FreeOf(id, ExcludedKeywords)

\* A replay that returned: the line that excludes trucks and vans has two
\* replayed actors of type car.c, the line that excludes nothing has a
\* replayed Van.b.
C16_Witness ==
    /\ ReplayRun
    /\ pc = "done"
    /\ parking_lines = << LineTwo, LineOne >>
    /\ Len(ReplayedActors) = 3
    /\ CandidateOf(vehicles[1]) = CarC
    /\ CandidateOf(vehicles[2]) = CarC
    /\ CandidateOf(vehicles[3]) = VanB
    /\ ~FreeOf(VanB, ExcludeVehicles(LineTwo))

-----------------------------------------------------------------------------
\* Properties of filter_vehicles_for_line (checked under SpecFilter).

\* The blueprints of the pool that contain no keyword, in the pool's order.
KeptOf(pool, keywords) ==
    SelectSeq(pool, LAMBDA id : FreeOf(id, keywords))

\* C17: filter_vehicles_for_line returns the blueprints of the pool whose id
\* contains no exclude keyword as a substring, case ignored, in the pool's
\* order, and the whole pool when the keywords are None or an empty list.
C17_FilterForLine ==
    pc = "done" =>
        /\ line_vehicle_blueprints =
              KeptOf(vehicle_blueprints, Line.exclude_vehicles)
        /\ (~Line.has_exclude \/ Line.exclude_vehicles = << >>) =>
              line_vehicle_blueprints = vehicle_blueprints

\* The pool truck.a, van.b, car.c filtered with the keywords truck, van:
\* exactly car.c is returned.
C17_Witness ==
    /\ pc = "done"
    /\ vehicle_blueprints = << TruckA, VanLower, CarC >>
    /\ Line.exclude_vehicles = << KwTruck, KwVan >>
    /\ line_vehicle_blueprints = << CarC >>

-----------------------------------------------------------------------------
\* Properties of the poses (checked under SpecPose).

\* The z of the point at distance pos on the line (the start's z when the
\* line has no length).
InterpolatedZ(line, pos) ==
    IF LineLength(line) = 0 THEN line.start_loc[3]
    ELSE line.start_loc[3]
         + (pos * (line.end_loc[3] - line.start_loc[3])) \div LineLength(line)

\* C18: the z of every pose is the z of the ground hit plus spawn_height,
\* and the z of the line point plus spawn_height when the query hit nothing;
\* there is one query per pose, no query ends the call with an error and
\* the returned list has a pose for every distance.
C18_GroundHeight ==
    /\ pc # "raised"
    /\ Len(DrawsOf("query", i)) = Len(spawn_transforms)
    /\ pc = "done" => Len(spawn_transforms) = Len(positions)
    /\ \A n \in 1..Len(spawn_transforms) :
          LET hit == DrawsOf("query", i)[n]
              z == spawn_transforms[n].location[3]
          IN  IF hit # << >>
              THEN z = hit[1] + SpawnHeight
              ELSE z = InterpolatedZ(Line, positions[n]) + SpawnHeight

\* A returned call on a rising line: the first query hit the ground at 7,
\* the second hit nothing one unit up the line.
C18_Witness ==
    /\ pc = "done"
    /\ Line.end_loc[3] > Line.start_loc[3]
    /\ positions = << 0, 1 >>
    /\ DrawsOf("query", i) = << << 7 >>, << >> >>
    /\ spawn_transforms[1].location[3] = 7 + SpawnHeight
    /\ spawn_transforms[2].location[3] = PoseStart[3] + 1 + SpawnHeight

\* The bearing of the line in degrees: atan2 of its y and x extent.
Bearing(line) ==
    LET d == Vec(line.start_loc, line.end_loc)
    IN  CASE d[1] > 0 -> 0
          [] d[1] < 0 -> 180
          [] d[1] = 0 /\ d[2] > 0 -> 90
          [] d[1] = 0 /\ d[2] < 0 -> -90
          [] OTHER -> 0

\* C19: the yaw of every pose is the bearing of the line plus 90 for a left
\* placement and minus 90 for a right one, plus the jitter drawn for the
\* pose, which lies in [-2, 2]; pitch and roll are 0.
C19_Yaw ==
    \A n \in 1..Len(spawn_transforms) :
        LET t == spawn_transforms[n]
            jitter == DrawsOf("draw_yaw", i)[n]
        IN  /\ jitter >= -2 /\ jitter <= 2
            /\ t.side \in {"left", "right"}
            /\ t.side = "left" => t.yaw = Bearing(Line) + 90 + jitter
            /\ t.side = "right" => t.yaw = Bearing(Line) - 90 + jitter
            /\ t.pitch = 0
            /\ t.roll = 0

\* A returned call on a line running due east: a left pose with yaw 90 and
\* a right pose with yaw -90, both drawn with jitter 0.
C19_Witness ==
    /\ pc = "done"
    /\ Vec(Line.start_loc, Line.end_loc) = << MaxPoseLen, 0, 0 >>
    /\ Len(spawn_transforms) = 2
    /\ DrawsOf("draw_yaw", i) = << 0, 0 >>
    /\ spawn_transforms[1].side = "left" /\ spawn_transforms[1].yaw = 90
    /\ spawn_transforms[2].side = "right" /\ spawn_transforms[2].yaw = -90

\* C20: on a segment whose start and end coincide the call has direction
\* (1,0,0) and perpendicular (1,0,0) and goes on without an error.
C20_DegenerateSegment ==
    (Line.start_loc = Line.end_loc /\ pc # "gen") =>
        /\ perp_vec = << 1, 0, 0 >>
        /\ line_dir = << 1, 0, 0 >>
        /\ pc # "raised"

\* A call on a segment of length 0 that returned, with no pose.
C20_Witness ==
    /\ Line.start_loc = Line.end_loc
    /\ pc = "done"
    /\ perp_vec = << 1, 0, 0 >>
    /\ line_dir = << 1, 0, 0 >>
    /\ spawn_transforms = << >>

-----------------------------------------------------------------------------
\* Properties of the per-line report (checked under SpecReplay).

\* The prints that name a line's requested count: of all the prints of a
\* line (its number, its exclude list, the capacity warning, the pool
\* warning, a line per slot, the count spawned) only the capacity warning
\* does.
ReportsRequested(n) ==
    \E m \in LineEvents(n) :
        /\ log[m].ev = "warn_capacity"
        /\ log[m].val[1] = parking_lines[n + 1].num_vehicles

\* The actors line n added to self.vehicles.
Produced(n) ==
    Len(SelectSeq(vehicles, LAMBDA a : a.line = n))

\* C21: a finished line that produced fewer slots than requested has its
\* requested count in the run's report.
C21_ShortfallReported ==
    \A n \in 0..(i - 1) :
        Produced(n) < parking_lines[n + 1].num_vehicles => ReportsRequested(n)

-----------------------------------------------------------------------------
\* Further properties of the poses (checked under SpecPose).

\* The horizontal unit vector a vehicle with this yaw looks along, for a yaw
\* that is a multiple of 90: (cos yaw, sin yaw).
Heading(yaw) ==
    CASE yaw % 360 = 0 -> << 1, 0 >>
      [] yaw % 360 = 90 -> << 0, 1 >>
      [] yaw % 360 = 180 -> << -1, 0 >>
      [] yaw % 360 = 270 -> << 0, -1 >>

\* The horizontal unit vector from the line point at distance pos to the
\* pose t.
OffsetHeading(t, pos) ==
    LET line_pos == LinePos(Line, pos)
    IN  << (t.location[1] - line_pos[1]) \div ParkingOffset,
           (t.location[2] - line_pos[2]) \div ParkingOffset >>

\* C22: every pose looks away from the line: the heading of its yaw before
\* the jitter is the direction in which the pose was moved off the line.
C22_FacesAwayFromLine ==
    \A n \in 1..Len(spawn_transforms) :
        LET t == spawn_transforms[n]
        IN  Heading(t.yaw - DrawsOf("draw_yaw", i)[n])
                = OffsetHeading(t, positions[n])

-----------------------------------------------------------------------------
\* Properties of the actors a batch creates (checked under SpecReplay).

\* The actor is in the list.
Tracked(actor, list) == \E n \in 1..Len(list) : list[n].id = actor.id

\* C23: when spawn_carpark has ended, with a return or with an error, every
\* actor the world created for it is in self.vehicles.
C23_CreatedActorsTracked ==
    pc \in {"done", "raised"} =>
        \A a \in 1..Len(world) : Tracked(world[a], vehicles)

-----------------------------------------------------------------------------
\* Further properties of the packing (checked under SpecGen).

\* The primary loop is over.
PrimaryDone == pc \in {"backfill", "synth", "done"}

\* C24: the backfill loop appends at most one placement, after which less
\* than min_spacing of the line remains, and it draws nothing when the primary
\* loop placed the effective count.
C24_BackfillAddsAtMostOne ==
    PrimaryDone =>
        /\ Len(positions) <= k + 1
        /\ Len(positions) = k + 1 =>
               LineLength(Line) - current_pos < Line.min_spacing
        /\ k = num_vehicles =>
               /\ Len(positions) = k
               /\ Len(DrawsOf("draw_spacing", i)) = k

\* The primary loop stopped on a spacing that did not fit and the backfill loop
\* placed one more.
C24_Witness ==
    /\ pc = "done"
    /\ k < num_vehicles
    /\ Len(positions) = k + 1
    /\ k >= 1

\* Both loops are over.
Packed == pc \in {"synth", "done"} /\ Line.min_spacing > 0

\* The number of placements every sequence of draws leaves room for.
GuaranteedFill == Min(num_vehicles, LineLength(Line) \div (2 * Line.min_spacing))

\* C25: whatever is drawn, the two loops place at least
\* min(effective count, floor(L / (2 * S))) vehicles, and they place none for
\* an effective count of 1 or more only on a line shorter than 2 * S.
C25_MinimumFill ==
    Packed =>
        /\ Len(positions) >= GuaranteedFill
        /\ (num_vehicles >= 1 /\ positions = << >>) =>
               LineLength(Line) < 2 * Line.min_spacing

\* The draws leave exactly the guaranteed number of placements, fewer than
\* the effective count.
C25_Witness ==
    /\ Packed
    /\ pc = "done"
    /\ Len(positions) = GuaranteedFill
    /\ Len(positions) < num_vehicles
    /\ Len(positions) >= 2

\* Nothing is placed although the effective count is 1 or more.
C25_WitnessEmpty ==
    /\ Packed
    /\ num_vehicles >= 1
    /\ positions = << >>

\* C26: every distance leaves min_spacing of the line after it.
C26_RoomAfterEveryPlacement ==
    \A n \in 1..Len(positions) :
        positions[n] + Line.min_spacing <= LineLength(Line)

\* The last of several placements leaves exactly min_spacing.
C26_Witness ==
    /\ pc = "done"
    /\ Len(positions) >= 2
    /\ positions[Len(positions)] + Line.min_spacing = LineLength(Line)

\* The segment has no length.
ZeroLength == Line.start_loc = Line.end_loc

\* C27: a call on a segment whose start equals its end, with a named side and
\* a positive min_spacing, does not raise, places nothing, builds no pose and
\* makes no ground query.
C27_ZeroLengthPlacesNothing ==
    (ValidCall /\ ZeroLength) =>
        /\ pc # "raised"
        /\ positions = << >>
        /\ spawn_transforms = << >>
        /\ ~Queried

\* Such a call has returned, for a requested count of 1 or more.
C27_Witness ==
    /\ ValidCall
    /\ ZeroLength
    /\ Line.num_vehicles >= 1
    /\ pc = "done"

-----------------------------------------------------------------------------
\* Properties of spawn_parked_vehicle (checked under SpecReplay).

\* The world.spawn_actor calls made for slot s of line n, in order.
CallsOf(n, s) ==
    SelectSeq(log, LAMBDA e : e.ev = "spawn_actor" /\ e.line = n /\ e.val.slot = s)

\* The actors of slot s of line n in list.
ActorsOf(list, n, s) == SelectSeq(list, LAMBDA a : a.line = n /\ a.slot = s)

\* What spawn_parked_vehicle did for slot s of line n, a slot it was called for.
OneSlot(n, s) ==
    LET calls == CallsOf(n, s)
        kinds == [x \in 1..Len(calls) |-> calls[x].val.kind]
        id == calls[1].val.id
        created == ActorsOf(world, n, s)
        returned == ActorsOf(spawned_vehicles \o vehicles, n, s)
        mapped == use_static_props /\ id \in VehicleMeshMapping
    IN  /\ Len(created) <= 1
        /\ kinds \in {<< "prop" >>, << "prop", "vehicle" >>, << "vehicle" >>}
        /\ kinds[1] = "prop" <=> mapped
        /\ kinds = << "prop" >> =>
               /\ Len(created) = 1
               /\ created[1].kind = "prop"
               /\ returned # << >>
        /\ Len(kinds) = 2 =>
               \A a \in 1..Len(created) : created[a].kind = "vehicle"
        /\ \A a \in 1..Len(returned) : Len(ActorsOf(world, n, s)) = 1
                                         /\ returned[a] = created[1]
        /\ s \in FailedSlots(n) <=> returned = << >>
        /\ returned = << >> => kinds[Len(kinds)] = "vehicle"

\* C28: for a slot, spawn_parked_vehicle creates at most one actor; it asks
\* for the static prop first exactly when props are enabled and the vehicle
\* id has a mesh, asks for the vehicle blueprint only otherwise or after the
\* prop was not created, and returns None only after asking for the vehicle
\* blueprint.
C28_OneActorPerSlot ==
    script = "static" =>
        \A m \in 1..Len(log) :
            log[m].ev = "spawn_actor" => OneSlot(log[m].line, log[m].val.slot)

\* A slot whose prop was not created and whose vehicle blueprint was, in a
\* batch that has returned.
C28_Witness ==
    /\ script = "static"
    /\ pc = "done"
    /\ \E a \in 1..Len(vehicles) :
          /\ vehicles[a].kind = "vehicle"
          /\ Len(CallsOf(vehicles[a].line, vehicles[a].slot)) = 2

-----------------------------------------------------------------------------
\* Properties of a spawner used for several calls (checked under SpecCalls).

\* The record holds the values the actor was spawned with (the side is
\* compared on lines with one side).
RecordOf(rec, actor) ==
    /\ rec.location = actor.transform.location
    /\ rec.rotation = [yaw |-> actor.transform.yaw,
                       pitch |-> actor.transform.pitch,
                       roll |-> actor.transform.roll]
    /\ rec.vehicle_type = CandidateOf(actor)
    /\ rec.parking_line_index = actor.line
    /\ parking_lines[actor.line + 1].side_type \in {"left", "right"} =>
           rec.side = parking_lines[actor.line + 1].side_type

\* C29: whenever a spawn_carpark call of the static script has returned,
\* whatever calls came before it, the actor list and the spawn data it
\* returned have the same length and the n-th record holds the values of the
\* n-th actor.
C29_ReturnedListsCorrespond ==
    (script = "static" /\ pc = "done") =>
        /\ Len(vehicles) = Len(all_spawn_data)
        /\ \A n \in 1..Len(vehicles) :
              n <= Len(all_spawn_data) => RecordOf(all_spawn_data[n], vehicles[n])

\* The cleanup calls in the log.
CleanupCalls == { m \in 1..Len(log) : log[m].ev = "cleanup" }

\* The first event after m that is no destroy (Len(log) + 1: none).
NextOther(m) ==
    LET others == { x \in (m + 1)..Len(log) : log[x].ev # "destroy" }
    IN  IF others = {} THEN Len(log) + 1
        ELSE CHOOSE x \in others : \A y \in others : x <= y

\* The last event before m that is no destroy (0: none).
PrevOther(m) ==
    LET others == { x \in 1..(m - 1) : log[x].ev # "destroy" }
    IN  IF others = {} THEN 0
        ELSE CHOOSE x \in others : \A y \in others : x >= y

\* The destroy attempts of cleanup call m, in order.
DestroysOf(m) == SubSeq(log, m + 1, NextOther(m) - 1)

\* Cleanup call m has returned.
Returned(m) == pc # "cleanup" \/ NextOther(m) <= Len(log)

\* C30: a cleanup that has returned made one destroy attempt on each actor
\* that was tracked when it began, whatever the attempts did, and no other;
\* self.vehicles is empty when it has returned; a cleanup that follows a
\* cleanup attempts no destroy.
C30_CleanupDestroysTracked ==
    /\ \A m \in CleanupCalls :
          Returned(m) =>
              /\ [x \in 1..Len(DestroysOf(m)) |-> DestroysOf(m)[x].val[1]]
                    = log[m].val
              /\ \A a, b \in 1..Len(log[m].val) :
                    a # b => log[m].val[a] # log[m].val[b]
              /\ (PrevOther(m) > 0 /\ log[PrevOther(m)].ev = "cleanup") =>
                    DestroysOf(m) = << >>
    /\ pc = "idle" => vehicles = << >>

\* A cleanup of two tracked actors, with one destroy that raised and one
\* that did not, followed by a second cleanup, which has returned.
C30_Witness ==
    /\ pc = "idle"
    /\ \E m \in CleanupCalls :
          /\ Len(log[m].val) = 2
          /\ DestroysOf(m)[1].val[2] = "raise"
          /\ DestroysOf(m)[2].val[2] = "ok"
          /\ NextOther(m) = Len(log)
          /\ log[Len(log)].ev = "cleanup"

====
